---- MODULE Spec2Model ----
(***************************************************************************)
(* Model of ANT (src/ant.py): the import handlers, the Test / Result data  *)
(* model with its type coercion, the stdout export handler and the         *)
(* TestEngine that drains the import handler one test at a time.           *)
(*                                                                         *)
(* Python values are modelled as records [t, i, s]: t is the Python type,  *)
(* i the numeric payload (an int; a float in thousandths; a bool as 0/1;   *)
(* a datetime as a clock reading) and s the characters of a str, one       *)
(* one-character string per element.                                       *)
(***************************************************************************)
EXTENDS Integers, Sequences, FiniteSets, TLC

(***************************************************************************)
(* Bounds of the model.                                                    *)
(***************************************************************************)
MaxRecords == 3      \* rows of the CSV file
MaxSinkCalls == 3    \* direct export_results calls in SinkSpec
MaxStrLen == 2       \* length of the numeric texts handed to convert_type
MaxProbes == 3       \* probes of the hop a trace is built around

(***************************************************************************)
(* Python values.                                                          *)
(***************************************************************************)
PyNone == [t |-> "none", i |-> 0, s |-> <<>>]
Absent == [t |-> "absent", i |-> 0, s |-> <<>>]   \* no such key / attribute
PyInt(n) == [t |-> "int", i |-> n, s |-> <<>>]
PyFloat(m) == [t |-> "float", i |-> m, s |-> <<>>]   \* m thousandths
PyBool(b) == [t |-> "bool", i |-> (IF b THEN 1 ELSE 0), s |-> <<>>]
PyStr(cs) == [t |-> "str", i |-> 0, s |-> cs]
PyTime(n) == [t |-> "datetime", i |-> n, s |-> <<>>]

Digits == <<"0", "1", "2", "3", "4", "5", "6", "7", "8", "9">>

IsDigit(c) == \E d \in 1..10 : Digits[d] = c

DigitVal(c) == (CHOOSE d \in 1..10 : Digits[d] = c) - 1

\* str.lower() on the letters the inputs use
LowerChar(c) ==
    CASE c = "T" -> "t" [] c = "R" -> "r" [] c = "U" -> "u" [] c = "E" -> "e"
      [] c = "F" -> "f" [] c = "A" -> "a" [] c = "L" -> "l" [] c = "S" -> "s"
      [] c = "M" -> "m" [] c = "Y" -> "y" [] c = "B" -> "b"
      [] OTHER -> c

Lower(cs) == [k \in 1..Len(cs) |-> LowerChar(cs[k])]

\* str.strip(): int() and float() ignore surrounding blanks
RECURSIVE LStrip(_)
LStrip(cs) == IF cs # <<>> /\ Head(cs) = " " THEN LStrip(Tail(cs)) ELSE cs

RECURSIVE RStrip(_)
RStrip(cs) ==
    IF cs # <<>> /\ cs[Len(cs)] = " " THEN RStrip(SubSeq(cs, 1, Len(cs) - 1)) ELSE cs

Strip(cs) == RStrip(LStrip(cs))

AllDigits(cs) == cs # <<>> /\ \A k \in 1..Len(cs) : IsDigit(cs[k])

RECURSIVE DigitsVal(_)
DigitsVal(cs) ==
    IF cs = <<>> THEN 0
    ELSE 10 * DigitsVal(SubSeq(cs, 1, Len(cs) - 1)) + DigitVal(cs[Len(cs)])

HasSign(cs) == cs # <<>> /\ Head(cs) \in {"-", "+"}

Unsigned(cs) == IF HasSign(cs) THEN Tail(cs) ELSE cs

Signed(cs, n) == IF cs # <<>> /\ Head(cs) = "-" THEN 0 - n ELSE n

\* int(str): blanks stripped, an optional sign, then decimal digits only
IntLiteralOk(cs) == AllDigits(Unsigned(Strip(cs)))

IntLiteralVal(cs) == Signed(Strip(cs), DigitsVal(Unsigned(Strip(cs))))

DotAt(cs) == IF \E k \in 1..Len(cs) : cs[k] = "."
             THEN CHOOSE k \in 1..Len(cs) : cs[k] = "." /\ \A j \in 1..(k - 1) : cs[j] # "."
             ELSE 0

IntPart(cs) == IF DotAt(cs) = 0 THEN cs ELSE SubSeq(cs, 1, DotAt(cs) - 1)

FracPart(cs) == IF DotAt(cs) = 0 THEN <<>> ELSE SubSeq(cs, DotAt(cs) + 1, Len(cs))

AllDigitsOrEmpty(cs) == \A k \in 1..Len(cs) : IsDigit(cs[k])

\* float(str) on plain decimal literals: [sign] digits [. digits], at least one
\* digit, at most three decimals (the precision of the thousandths payload)
FloatLiteralOk(cs) ==
    LET u == Unsigned(Strip(cs))
    IN  /\ AllDigitsOrEmpty(IntPart(u))
        /\ AllDigitsOrEmpty(FracPart(u))
        /\ Len(IntPart(u)) + Len(FracPart(u)) > 0
        /\ Len(FracPart(u)) <= 3

Pad3(cs) == CASE Len(cs) = 0 -> <<"0", "0", "0">>
              [] Len(cs) = 1 -> cs \o <<"0", "0">>
              [] Len(cs) = 2 -> cs \o <<"0">>
              [] OTHER -> cs

FloatLiteralVal(cs) ==
    LET u == Unsigned(Strip(cs))
    IN  Signed(Strip(cs), 1000 * DigitsVal(IntPart(u)) + DigitsVal(Pad3(FracPart(u))))

\* int(float) truncates toward zero
TruncMilli(m) == IF m >= 0 THEN m \div 1000 ELSE 0 - ((0 - m) \div 1000)


(***************************************************************************)
(* Test.convert_type (static method).  The outcome of a call is a record:  *)
(* ok says whether it returned, v is the value returned, and exc / arg /   *)
(* to describe the exception raised otherwise (its class, and the value    *)
(* and target type its message names).                                     *)
(***************************************************************************)
NoError == [exc |-> "", origin |-> "", arg |-> PyNone, to |-> ""]

Error(exc, origin, arg, to) == [exc |-> exc, origin |-> origin, arg |-> arg, to |-> to]

Returned(v) == [ok |-> TRUE, v |-> v, err |-> NoError]

Raised(e) == [ok |-> FALSE, v |-> PyNone, err |-> e]

\* isinstance(arg, to_type); bool is a subclass of int
IsInstance(arg, to_type) ==
    CASE to_type = "int" -> arg.t \in {"int", "bool"}
      [] to_type = "float" -> arg.t = "float"
      [] to_type = "bool" -> arg.t = "bool"
      [] OTHER -> FALSE

CannotConvert(arg, to_type) ==
    Raised(Error("TypeError", "convert_type", arg, to_type))

\* mutant of ConvertBool: bool(arg), the truthiness of the value
ConvertBoolByTruthiness(arg) ==
    Returned(PyBool(IF arg.t = "str" THEN arg.s # <<>> ELSE arg.i # 0))

\* the bool branch: arg.lower() compared with "true" / "false"
ConvertBool(arg) ==
    IF arg.t # "str"
    THEN Raised(Error("AttributeError", "convert_type", arg, "bool"))
    ELSE CASE Lower(arg.s) = <<"t", "r", "u", "e">> -> Returned(PyBool(TRUE))
           [] Lower(arg.s) = <<"f", "a", "l", "s", "e">> -> Returned(PyBool(FALSE))
           [] OTHER -> CannotConvert(arg, "bool")

\* int(arg)
ConvertInt(arg) ==
    CASE arg.t = "str" ->
             IF IntLiteralOk(arg.s) THEN Returned(PyInt(IntLiteralVal(arg.s)))
             ELSE CannotConvert(arg, "int")
      [] arg.t = "float" -> Returned(PyInt(TruncMilli(arg.i)))
      [] OTHER -> Returned(PyInt(arg.i))

\* float(arg)
ConvertFloat(arg) ==
    CASE arg.t = "str" ->
             IF FloatLiteralOk(arg.s) THEN Returned(PyFloat(FloatLiteralVal(arg.s)))
             ELSE CannotConvert(arg, "float")
      [] OTHER -> Returned(PyFloat(1000 * arg.i))

\* mutant of convert_type: `if not arg` instead of `if arg is None`
convert_type_defaults_falsy(arg, to_type, default) ==
    IF arg = PyNone \/ (arg.t \in {"int", "float", "bool"} /\ arg.i = 0) \/ arg = PyStr(<<>>)
    THEN Returned(default)
    ELSE IF IsInstance(arg, to_type) THEN Returned(arg)
    ELSE CASE to_type = "bool" -> ConvertBool(arg)
           [] to_type = "int" -> ConvertInt(arg)
           [] OTHER -> ConvertFloat(arg)

convert_type(arg, to_type, default) ==
    IF arg = PyNone THEN Returned(default)
    ELSE IF IsInstance(arg, to_type) THEN Returned(arg)
    ELSE CASE to_type = "bool" -> ConvertBool(arg)
           [] to_type = "int" -> ConvertInt(arg)
           [] OTHER -> ConvertFloat(arg)

(***************************************************************************)
(* Test objects.  One record shape serves both subclasses; an attribute a  *)
(* subclass does not have is Absent.                                       *)
(***************************************************************************)
NoTest ==
    [cls |-> "none", id_number |-> PyNone, timestamp |-> PyNone, destination |-> PyNone,
     count |-> Absent, payload_size |-> Absent, timeout |-> Absent, addr_family |-> Absent,
     max_probes |-> Absent, dont_resolve_names |-> Absent, interval |-> Absent]

Built(test) == [ok |-> TRUE, test |-> test, err |-> NoError]

NotBuilt(e) == [ok |-> FALSE, test |-> NoTest, err |-> e]

\* kwargs.get(key): None when the key is missing
Get(args, key) == IF args[key] = Absent THEN PyNone ELSE args[key]

\* the first conversion, in call order, that raised
FirstRaised(convs) ==
    LET bad == {k \in 1..Len(convs) : ~convs[k].ok}
    IN  IF bad = {} THEN NoError
        ELSE convs[CHOOSE k \in bad : \A j \in bad : k <= j].err

\* int(self.interval * 1000); a float's payload is already in thousandths
IntervalMillis(interval) == PyInt(interval.i)

PingTest(args) ==
    LET id == convert_type(Get(args, "id_number"), "int", PyNone)
        count == convert_type(Get(args, "count"), "int", PyInt(5))
        payload_size == convert_type(Get(args, "payload_size"), "int", PyInt(56))
        timeout == convert_type(Get(args, "timeout"), "int", PyInt(1))
        addr_family == convert_type(Get(args, "addr_family"), "int", PyInt(4))
        interval == convert_type(Get(args, "interval"), "float", PyFloat(200))
        convs == <<id, count, payload_size, timeout, addr_family, interval>>
    IN  IF FirstRaised(convs) # NoError THEN NotBuilt(FirstRaised(convs))
        ELSE Built([cls |-> "ping", id_number |-> id.v, timestamp |-> PyNone,
                    destination |-> args.destination, count |-> count.v,
                    payload_size |-> payload_size.v, timeout |-> timeout.v,
                    addr_family |-> addr_family.v, max_probes |-> Absent,
                    dont_resolve_names |-> Absent, interval |-> interval.v])

TracerouteTest(args) ==
    LET id == convert_type(Get(args, "id_number"), "int", PyNone)
        count == convert_type(Get(args, "count"), "int", PyInt(3))
        payload_size == convert_type(Get(args, "payload_size"), "int", PyNone)
        timeout == convert_type(Get(args, "timeout"), "int", PyInt(1))
        max_probes == convert_type(Get(args, "max_probes"), "int", PyInt(30))
        dont_resolve_names ==
            convert_type(Get(args, "dont_resolve_names"), "bool", PyBool(FALSE))
        interval == convert_type(Get(args, "interval"), "float", PyFloat(500))
        convs == <<id, count, payload_size, timeout, max_probes, dont_resolve_names,
                   interval>>
    IN  IF FirstRaised(convs) # NoError THEN NotBuilt(FirstRaised(convs))
        ELSE Built([cls |-> "traceroute", id_number |-> id.v, timestamp |-> PyNone,
                    destination |-> args.destination, count |-> count.v,
                    payload_size |-> payload_size.v, timeout |-> timeout.v,
                    addr_family |-> Absent, max_probes |-> max_probes.v,
                    dont_resolve_names |-> dont_resolve_names.v,
                    interval |-> IntervalMillis(interval.v)])

(***************************************************************************)
(* Import handlers.  A raw record (a CSV row, or a hard-coded dict of the  *)
(* manual handler) has one value per column; a column the source does not  *)
(* have is Absent.  test_type and destination are never parsed, so their   *)
(* text is kept as one token.                                              *)
(***************************************************************************)
Empty == PyStr(<<>>)   \* '' : what csv.DictReader yields for an empty field

Columns ==
    {"test_type", "id_number", "destination", "count", "payload_size", "timeout",
     "addr_family", "max_probes", "dont_resolve_names", "interval", "test_id"}

\* self.tests_register.get(name): the class registered under name, or None
tests_register_get(test_type) ==
    CASE test_type = PyStr(<<"ping">>) -> "ping"
      [] test_type = PyStr(<<"traceroute">>) -> "traceroute"
      [] OTHER -> "none"

CleanedOk(row) == [ok |-> TRUE, row |-> row, err |-> NoError]

CleanerRaised(row, e) == [ok |-> FALSE, row |-> row, err |-> e]

\* CsvImportHandler.data_cleaner: '' becomes None; a test_id column is int()ed
data_cleaner(data) ==
    LET cleaned == [key \in Columns |-> IF data[key] = Empty THEN PyNone ELSE data[key]]
        test_id == data["test_id"]
    IN  IF test_id = Absent THEN CleanedOk(cleaned)
        ELSE IF IntLiteralOk(test_id.s)
             THEN CleanedOk([cleaned EXCEPT !["test_id"] = PyInt(IntLiteralVal(test_id.s))])
             ELSE CleanerRaised(data, Error("ValueError", "data_cleaner", test_id, "int"))

\* cls(**args): the constructor the register returned, called on the record
Construct(cls, args) ==
    CASE cls = "ping" -> PingTest(args)
      [] cls = "traceroute" -> TracerouteTest(args)
      [] OTHER -> NotBuilt(Error("TypeError", "call_none", PyNone, ""))

\* one iteration of the loop of CsvImportHandler.initialise
CsvImportRow(row) ==
    LET cls == tests_register_get(row["test_type"])
        clean == data_cleaner(row)
    IN  IF ~clean.ok THEN NotBuilt(clean.err) ELSE Construct(cls, clean.row)

\* one iteration of the loop of ManualImportHandler.initialise
ManualImportRow(row) == Construct(tests_register_get(row["test_type"]), row)

ImportRow(handler, row) ==
    IF handler = "csv" THEN CsvImportRow(row) ELSE ManualImportRow(row)

\* mutant of initialise: a row that raises is skipped and the import goes on
RECURSIVE initialise_skips_bad_rows(_, _, _)
initialise_skips_bad_rows(handler, rows, tests) ==
    IF rows = <<>> THEN [tests |-> tests, err |-> NoError]
    ELSE LET built == ImportRow(handler, Head(rows))
         IN  initialise_skips_bad_rows(handler, Tail(rows),
                 IF built.ok THEN Append(tests, built.test) ELSE tests)

\* initialise(): tests are appended row by row until a row raises
RECURSIVE initialise(_, _, _)
initialise(handler, rows, tests) ==
    IF rows = <<>> THEN [tests |-> tests, err |-> NoError]
    ELSE LET built == ImportRow(handler, Head(rows))
         IN  IF built.ok THEN initialise(handler, Tail(rows), Append(tests, built.test))
             ELSE [tests |-> tests, err |-> built.err]

\* mutant of next_test: the element after the one returned is removed too
next_test_drops_two(tests) ==
    IF tests # <<>>
    THEN [ret |-> Head(tests),
          tests |-> IF Len(tests) >= 2 THEN Tail(Tail(tests)) ELSE Tail(tests)]
    ELSE [ret |-> NoTest, tests |-> tests]

\* mutant of next_test: pop() takes the last element instead of the first
next_test_pop_last(tests) ==
    IF tests # <<>>
    THEN [ret |-> tests[Len(tests)], tests |-> SubSeq(tests, 1, Len(tests) - 1)]
    ELSE [ret |-> NoTest, tests |-> tests]

\* ImportHandler.next_test: pop(0), or None on an empty list
next_test(tests) ==
    IF tests # <<>> THEN [ret |-> Head(tests), tests |-> Tail(tests)]
    ELSE [ret |-> NoTest, tests |-> tests]

(***************************************************************************)
(* Results and the stdout export handler.                                  *)
(***************************************************************************)
NoResult ==
    [cls |-> "none", timestamp |-> PyNone, id_number |-> PyNone, destination |-> PyNone,
     is_alive |-> FALSE]

\* Result(None, None): what the base class's _specific_run returns
BareResult ==
    [cls |-> "Result", timestamp |-> PyNone, id_number |-> PyNone, destination |-> PyNone,
     is_alive |-> FALSE]

PingResult(timestamp, id_number, host) ==
    [cls |-> "PingResult", timestamp |-> timestamp, id_number |-> id_number,
     destination |-> host.address, is_alive |-> host.is_alive]

\* mutant of TracerouteResult: the base class's fields are never set
TracerouteResultWithoutBase(timestamp, id_number, data) ==
    [cls |-> "TracerouteResult", timestamp |-> PyNone, id_number |-> PyNone,
     destination |-> data.destination_name, is_alive |-> FALSE]

TracerouteResult(timestamp, id_number, data) ==
    [cls |-> "TracerouteResult", timestamp |-> timestamp, id_number |-> id_number,
     destination |-> data.destination_name, is_alive |-> FALSE]

\* one print() call: label is the fixed text, ts the formatted timestamp (if
\* any) and body the result whose __str__ is printed (if any)
Line(label, ts, body) == [label |-> label, ts |-> ts, body |-> body]

\* StdoutExportHandler.export_results: the lines it prints and whether it raises
export_results(result) ==
    CASE result.cls = "PingResult" ->
             [out |-> <<Line("Timestamp:", result.timestamp, NoResult),
                        Line("Destination:", PyNone, result)>>,
              raised |-> FALSE]
      [] result.cls = "TracerouteResult" ->
             [out |-> <<Line("", PyNone, result)>>, raised |-> FALSE]
      [] OTHER -> [out |-> <<>>, raised |-> FALSE]

(***************************************************************************)
(* The sources the model runs on.                                          *)
(***************************************************************************)
\* a CSV row of a file without a test_id column, all tunables left empty
BlankRow(test_type, id_number) ==
    [key \in Columns |->
        CASE key = "test_type" -> PyStr(<<test_type>>)
          [] key = "id_number" -> PyStr(id_number)
          [] key = "destination" -> PyStr(<<"host.example">>)
          [] key = "test_id" -> Absent
          [] OTHER -> Empty]

With(row, key, text) == [row EXCEPT ![key] = PyStr(text)]

\* rows of files that have no test_id column
CsvPool ==
    { BlankRow("ping", <<"1">>),
      With(With(BlankRow("ping", <<"2">>), "count", <<"0">>), "interval", <<"0", ".", "2">>),
      With(BlankRow("traceroute", <<"3">>), "dont_resolve_names", <<"T", "R", "U", "E">>),
      With(BlankRow("traceroute", <<"4">>), "payload_size", <<"6", "4">>),
      BlankRow("dns", <<"5">>),
      With(BlankRow("ping", <<"6">>), "count", <<"a", "b", "c">>),
      With(BlankRow("traceroute", <<"7">>), "dont_resolve_names", <<"m", "a", "y", "b", "e">>),
      BlankRow("ping", <<>>) }

\* rows of files that have a test_id column as well
CsvPoolWithTestId ==
    { With(BlankRow("ping", <<"1">>), "test_id", <<"1">>),
      With(BlankRow("dns", <<"5">>), "test_id", <<>>) }

\* ManualImportHandler.manual_tests, with the default destination
ManualTests ==
    LET none == [key \in Columns |-> Absent]
    IN  << [none EXCEPT !["test_type"] = PyStr(<<"ping">>), !["id_number"] = PyInt(1),
                        !["destination"] = PyStr(<<"8.8.8.8">>), !["count"] = PyInt(10),
                        !["interval"] = PyFloat(200), !["timeout"] = PyInt(1)],
           [none EXCEPT !["test_type"] = PyStr(<<"traceroute">>), !["id_number"] = PyInt(2),
                        !["destination"] = PyStr(<<"www.google.com">>)] >>

SeqsUpTo(S, n) == UNION {[1..k -> S] : k \in 0..n}

(***************************************************************************)
(* State.                                                                  *)
(***************************************************************************)
VARIABLES
    handler,     \* which ImportHandler subclass the engine is bound to
    records,     \* the raw records of the source
    pc,          \* where the main program is
    tests,       \* import_handler.tests
    current,     \* run_tests' local `test`: the test in flight, or NoTest
    result,      \* run_tests' local `result` not yet exported, or NoResult
    exported,    \* the results export_results has been called with, in order
    stdout,      \* the lines printed so far
    now,         \* the clock datetime.now() reads
    error,       \* the exception that ended the program, or NoError
    returned,    \* what the latest next_test() call returned
    postCalls,   \* next_test() calls made after run_tests() returned
    sinkRaised,  \* whether the latest export_results call raised
    call         \* a direct call of a function: its arguments and its outcome

vars == <<handler, records, pc, tests, current, result, exported, stdout, now, error,
          returned, postCalls, sinkRaised, call>>

\* no function is being called directly
NoCall == [done |-> FALSE]

MaxPostCalls == 2

Init ==
    /\ handler \in {"csv", "manual"}
    /\ records \in IF handler = "manual" THEN {ManualTests}
                   ELSE SeqsUpTo(CsvPool, MaxRecords) \cup SeqsUpTo(CsvPoolWithTestId, MaxRecords)
    /\ pc = "new"
    /\ tests = <<>>
    /\ current = NoTest
    /\ result = NoResult
    /\ exported = <<>>
    /\ stdout = <<>>
    /\ now = 1
    /\ error = NoError
    /\ returned = NoTest
    /\ postCalls = 0
    /\ sinkRaised = FALSE
    /\ call = NoCall

(***************************************************************************)
(* TestEngine.__init__: binds the handlers and calls initialise(); an      *)
(* exception of initialise() leaves the constructor, so no engine exists.  *)
(***************************************************************************)
EngineInit ==
    /\ pc = "new"
    /\ LET imported == initialise(handler, records, <<>>)
       IN  /\ tests' = imported.tests
           /\ error' = imported.err
           /\ pc' = IF imported.err = NoError THEN "ready" ELSE "init_failed"
    /\ UNCHANGED <<handler, records, current, result, exported, stdout, now, returned,
                   postCalls, sinkRaised, call>>

\* main.py calls run_tests() on the engine it built
RunTestsCall ==
    /\ pc = "ready"
    /\ pc' = "loop"
    /\ UNCHANGED <<handler, records, tests, current, result, exported, stdout, now, error,
                   returned, postCalls, sinkRaised, call>>

\* mutant of LoopNextTest: the loop also ends when the test just taken was
\* the last one (a `while self.tests:` test after the pop)
LoopNextTestStopsEarly ==
    /\ pc = "loop"
    /\ LET got == next_test(tests)
       IN  /\ tests' = got.tests
           /\ returned' = got.ret
           /\ current' = IF got.tests = <<>> THEN NoTest ELSE got.ret
           /\ pc' = IF got.ret = NoTest \/ got.tests = <<>> THEN "done" ELSE "run"
    /\ UNCHANGED <<handler, records, result, exported, stdout, now, error, postCalls,
                   sinkRaised, call>>

\* run_tests: test = next_test(); break on None
LoopNextTest ==
    /\ pc = "loop"
    /\ LET got == next_test(tests)
       IN  /\ tests' = got.tests
           /\ returned' = got.ret
           /\ current' = got.ret
           /\ pc' = IF got.ret = NoTest THEN "done" ELSE "run"
    /\ UNCHANGED <<handler, records, result, exported, stdout, now, error, postCalls,
                   sinkRaised, call>>

\* mutant of Stamp: run() forgets to set the timestamp
StampForgotten(test, clock) == test

\* Test.run, generic phase: self.timestamp = datetime.now()
Stamp(test, clock) == [test EXCEPT !.timestamp = PyTime(clock)]

RunGeneric ==
    /\ pc = "run"
    /\ current' = Stamp(current, now)
    /\ now' = now + 1
    /\ pc' = "specific"
    /\ UNCHANGED <<handler, records, tests, result, exported, stdout, error, returned,
                   postCalls, sinkRaised, call>>

\* TracerouteTest._specific_run puts self.payload_size, an int, into the
\* argument list when it is truthy; subprocess then raises TypeError
CommandIsText(test) == test.payload_size = PyNone \/ test.payload_size.i = 0

\* what _specific_run can do: return a result, or raise
SpecificOutcomes(test) ==
    CASE test.cls = "ping" ->
             { [ok |-> TRUE, err |-> NoError,
                result |-> PingResult(test.timestamp, test.id_number,
                                      [address |-> test.destination, is_alive |-> alive])]
               : alive \in BOOLEAN }
             \cup { [ok |-> FALSE, result |-> NoResult,
                     err |-> Error("ICMPLibError", "ping", PyNone, "")] }
      [] test.cls = "traceroute" ->
             IF ~CommandIsText(test)
             THEN { [ok |-> FALSE, result |-> NoResult,
                     err |-> Error("TypeError", "subprocess", test.payload_size, "")] }
             ELSE { [ok |-> TRUE, err |-> NoError,
                     result |-> TracerouteResult(test.timestamp, test.id_number,
                                    [destination_name |-> test.destination])],
                    [ok |-> FALSE, result |-> NoResult,
                     err |-> Error("CalledProcessError", "subprocess", PyNone, "")] }
      [] OTHER -> { [ok |-> TRUE, err |-> NoError, result |-> BareResult] }

\* mutant of SelfAfterSpecificRun: the seconds-to-milliseconds conversion of
\* the interval is done on self in _specific_run
SelfWithIntervalRescaled(test) == [test EXCEPT !.interval = PyInt(test.interval.i * 1000)]

\* the test object after _specific_run: both variants only read self
SelfAfterSpecificRun(test) == test

\* mutant of RunSpecific: the engine catches the exception and goes on
RunSpecificSwallows ==
    /\ pc = "specific"
    /\ \E o \in SpecificOutcomes(current) :
          /\ result' = o.result
          /\ error' = o.err
          /\ pc' = IF o.ok THEN "export" ELSE "loop"
    /\ current' = current
    /\ UNCHANGED <<handler, records, tests, exported, stdout, now, returned, postCalls,
                   sinkRaised, call>>

\* Test.run, variant-specific phase; an exception leaves run() and run_tests()
RunSpecific ==
    /\ pc = "specific"
    /\ \E o \in SpecificOutcomes(current) :
          /\ result' = o.result
          /\ error' = o.err
          /\ pc' = IF o.ok THEN "export" ELSE "aborted"
    /\ current' = SelfAfterSpecificRun(current)
    /\ UNCHANGED <<handler, records, tests, exported, stdout, now, returned, postCalls,
                   sinkRaised, call>>

\* mutant of ExportResult: the result is kept back instead of handed over
ExportResultDeferred ==
    /\ pc = "export"
    /\ pc' = "loop"
    /\ current' = NoTest
    /\ UNCHANGED <<handler, records, tests, result, exported, stdout, now, error, returned,
                   postCalls, sinkRaised, call>>

\* run_tests: self.export_handler.export_results(result), then loop
ExportResult ==
    /\ pc = "export"
    /\ LET printed == export_results(result)
       IN  /\ stdout' = stdout \o printed.out
           /\ sinkRaised' = printed.raised
           /\ pc' = IF printed.raised THEN "aborted" ELSE "loop"
    /\ exported' = Append(exported, result)
    /\ result' = NoResult
    /\ current' = NoTest
    /\ UNCHANGED <<handler, records, tests, now, error, returned, postCalls, call>>

\* a caller polls the import handler again after run_tests() returned
PostNextTest ==
    /\ pc = "done"
    /\ postCalls < MaxPostCalls
    /\ LET got == next_test(tests)
       IN  /\ tests' = got.tests
           /\ returned' = got.ret
    /\ postCalls' = postCalls + 1
    /\ UNCHANGED <<handler, records, pc, current, result, exported, stdout, now, error,
                   sinkRaised, call>>

Next ==
    \/ EngineInit
    \/ RunTestsCall
    \/ LoopNextTest
    \/ RunGeneric
    \/ RunSpecific
    \/ ExportResult
    \/ PostNextTest

Spec == Init /\ [][Next]_vars

\* the call of run_tests() and the steps of its loop
RunTestsStep ==
    \/ RunTestsCall
    \/ LoopNextTest
    \/ RunGeneric
    \/ RunSpecific
    \/ ExportResult

\* the program is sequential: once the engine is built, main.py calls
\* run_tests(), and a statement of its loop that can run does run
FairSpec == Spec /\ WF_vars(RunTestsStep)

(***************************************************************************)
(* The export handler on its own: a caller hands export_results any        *)
(* Result, one call after another.                                         *)
(***************************************************************************)
SinkPool ==
    { BareResult,
      PingResult(PyTime(1), PyInt(1), [address |-> PyStr(<<"8.8.8.8">>), is_alive |-> TRUE]),
      PingResult(PyTime(2), PyInt(2), [address |-> PyStr(<<"8.8.8.8">>), is_alive |-> FALSE]),
      TracerouteResult(PyTime(1), PyInt(1), [destination_name |-> PyStr(<<"www.google.com">>)]),
      TracerouteResult(PyTime(2), PyInt(2), [destination_name |-> PyStr(<<"host.example">>)]) }

InitSink ==
    /\ handler = "manual"
    /\ records = <<>>
    /\ pc = "sink"
    /\ tests = <<>>
    /\ current = NoTest
    /\ result = NoResult
    /\ exported = <<>>
    /\ stdout = <<>>
    /\ now = 1
    /\ error = NoError
    /\ returned = NoTest
    /\ postCalls = 0
    /\ sinkRaised = FALSE
    /\ call = NoCall

SinkCall ==
    /\ pc = "sink"
    /\ Len(exported) < MaxSinkCalls
    /\ \E r \in SinkPool :
          LET printed == export_results(r)
          IN  /\ stdout' = stdout \o printed.out
              /\ sinkRaised' = printed.raised
              /\ exported' = Append(exported, r)
    /\ UNCHANGED <<handler, records, pc, tests, current, result, now, error, returned,
                   postCalls, call>>

NextSink == SinkCall

SinkSpec == InitSink /\ [][NextSink]_vars

(***************************************************************************)
(* Test.convert_type on its own: one call with any raw value, target type  *)
(* and default.                                                            *)
(***************************************************************************)
NumAlphabet == {"0", "7", "-", ".", " "}

\* every text over the numeric alphabet, the empty one included
NumericTexts == {PyStr(cs) : cs \in SeqsUpTo(NumAlphabet, MaxStrLen)}

\* "true" and "false" in every mix of letter case
TrueTexts ==
    {PyStr(<<a, b, c, d>>) : a \in {"t", "T"}, b \in {"r", "R"}, c \in {"u", "U"},
                             d \in {"e", "E"}}

FalseTexts ==
    {PyStr(<<a, b, c, d, e>>) : a \in {"f", "F"}, b \in {"a", "A"}, c \in {"l", "L"},
                                d \in {"s", "S"}, e \in {"e", "E"}}

OtherTexts ==
    { PyStr(<<"m", "a", "y", "b", "e">>), PyStr(<<"M", "A", "Y", "B", "E">>),
      PyStr(<<"y", "e", "s">>), PyStr(<<"t">>), PyStr(<<"t", "r", "u", "e", "e">>),
      PyStr(<<" ", "t", "r", "u", "e">>), PyStr(<<"f", "a", "l", "s">>),
      PyStr(<<"1">>), PyStr(<<"1", ".", "5">>), PyStr(<<"a", "b", "c">>) }

TypedValues ==
    { PyInt(0), PyInt(1), PyInt(7), PyInt(0 - 3), PyFloat(0), PyFloat(200), PyFloat(1500),
      PyFloat(0 - 2500), PyBool(FALSE), PyBool(TRUE) }

ArgPool == {PyNone} \cup TypedValues \cup NumericTexts \cup TrueTexts \cup FalseTexts
           \cup OtherTexts

\* the defaults the constructors declare, and zero / false ones
DefaultPool ==
    {PyNone, PyInt(0), PyInt(5), PyFloat(0), PyFloat(200), PyBool(FALSE), PyBool(TRUE)}

TargetTypes == {"int", "float", "bool"}

InitConv ==
    /\ handler = "manual"
    /\ records = <<>>
    /\ pc = "convert"
    /\ tests = <<>>
    /\ current = NoTest
    /\ result = NoResult
    /\ exported = <<>>
    /\ stdout = <<>>
    /\ now = 1
    /\ error = NoError
    /\ returned = NoTest
    /\ postCalls = 0
    /\ sinkRaised = FALSE
    /\ call \in [done : {FALSE}, arg : ArgPool, to : TargetTypes, default : DefaultPool,
                 out : {Returned(PyNone)}]

\* the call is made: convert_type(arg, to_type, default)
ConvCall ==
    /\ pc = "convert"
    /\ ~call.done
    /\ call' = [call EXCEPT !.done = TRUE,
                            !.out = convert_type(call.arg, call.to, call.default)]
    /\ UNCHANGED <<handler, records, pc, tests, current, result, exported, stdout, now,
                   error, returned, postCalls, sinkRaised>>

NextConv == ConvCall

ConvSpec == InitConv /\ [][NextConv]_vars

(***************************************************************************)
(* TracerouteResult.__str__.  A text is a sequence of characters; a name   *)
(* or an address, which is copied as it is, is kept as one token.          *)
(***************************************************************************)
\* str(n) of a non-negative int
RECURSIVE IntToChars(_)
IntToChars(n) ==
    IF n < 10 THEN <<Digits[n + 1]>>
    ELSE IntToChars(n \div 10) \o <<Digits[(n % 10) + 1]>>

\* the decimals of str(float): trailing zeros dropped, one digit at least
FracChars(f) ==
    CASE f % 100 = 0 -> <<Digits[(f \div 100) + 1]>>
      [] f % 100 # 0 /\ f % 10 = 0 -> <<Digits[(f \div 100) + 1], Digits[((f \div 10) % 10) + 1]>>
      [] OTHER -> <<Digits[(f \div 100) + 1], Digits[((f \div 10) % 10) + 1],
                    Digits[(f % 10) + 1]>>

\* f"{probe['rtt']}": str() of a non-negative float given in thousandths
FloatToChars(m) == IntToChars(m \div 1000) \o <<".">> \o FracChars(m % 1000)

\* " " * n; the empty text when n is not positive
Spaces(n) == [k \in 1..n |-> " "]

\* f"{probe['name']} ({probe['ip']}) {probe['rtt']} ms"
ProbeText(probe) ==
    <<probe.name, " ", "(", probe.ip, ")", " ">> \o FloatToChars(probe.rtt)
        \o <<" ", "m", "s">>

\* " " * 2 + f"{probe['rtt']} ms"
RttText(probe) == Spaces(2) \o FloatToChars(probe.rtt) \o <<" ", "m", "s">>

\* mutant of RestProbes: prev_ip is not updated, every probe is compared with
\* the first one of the hop
RECURSIVE RestProbesAgainstFirst(_, _)
RestProbesAgainstFirst(probes, prev_ip) ==
    IF probes = <<>> THEN <<>>
    ELSE (IF Head(probes).ip = prev_ip THEN RttText(Head(probes))
          ELSE <<"\n">> \o Spaces(4) \o ProbeText(Head(probes)))
         \o RestProbesAgainstFirst(Tail(probes), prev_ip)

\* the loop over hop['probes'][1:], prev_ip being the address of the probe before
RECURSIVE RestProbes(_, _)
RestProbes(probes, prev_ip) ==
    IF probes = <<>> THEN <<>>
    ELSE (IF Head(probes).ip = prev_ip THEN RttText(Head(probes))
          ELSE <<"\n">> \o Spaces(4) \o ProbeText(Head(probes)))
         \o RestProbes(Tail(probes), Head(probes).ip)

\* mutant of this_hop_text: a hop without probes gets no text
this_hop_text_without_placeholder(probes) ==
    IF probes # <<>> THEN ProbeText(probes[1]) \o RestProbes(Tail(probes), probes[1].ip)
    ELSE <<>>

\* this_hop_text of one iteration of the loop over self.hops
this_hop_text(probes) ==
    IF probes # <<>> THEN ProbeText(probes[1]) \o RestProbes(Tail(probes), probes[1].ip)
    ELSE <<"*", " ", "*", " ", "*">>

\* what one hop adds to output_text
HopText(hop) ==
    Spaces(2 - Len(IntToChars(hop.hop))) \o IntToChars(hop.hop) \o Spaces(2)
        \o this_hop_text(hop.probes) \o <<"\n">>

RECURSIVE TracerouteResult_str(_)
TracerouteResult_str(hops) ==
    IF hops = <<>> THEN <<>> ELSE HopText(Head(hops)) \o TracerouteResult_str(Tail(hops))

\* probes as jc reports them: two routers, the second one without a name
ProbeA1 == [ip |-> "192.168.0.1", name |-> "mymodem", rtt |-> 4973]
ProbeA2 == [ip |-> "192.168.0.1", name |-> "mymodem", rtt |-> 15000]
ProbeB1 == [ip |-> "10.5.86.72", name |-> "10.5.86.72", rtt |-> 2200]
ProbeB2 == [ip |-> "10.5.86.72", name |-> "10.5.86.72", rtt |-> 16121]

ProbePool == {ProbeA1, ProbeA2, ProbeB1}

\* the hops around the hop a trace is built around: none, or one of these
NeighbourProbes == {<<>>, <<ProbeA1>>, <<ProbeA1, ProbeB1, ProbeB2>>}

Neighbours == {<<>>} \cup {<<ps>> : ps \in NeighbourProbes}

\* hop records with contiguous indices, the first one being `first`
Numbered(first, probeLists) ==
    [k \in 1..Len(probeLists) |-> [hop |-> first + k - 1, probes |-> probeLists[k]]]

\* data['hops']: the empty list, or up to three hops
TracePool ==
    {<<>>} \cup
    { Numbered(first, pre \o <<ps>> \o post) :
        first \in {1, 9, 99}, pre \in Neighbours, post \in Neighbours,
        ps \in SeqsUpTo(ProbePool, MaxProbes) }

InitHops ==
    /\ handler = "manual"
    /\ records = <<>>
    /\ pc = "render"
    /\ tests = <<>>
    /\ current = NoTest
    /\ result = NoResult
    /\ exported = <<>>
    /\ stdout = <<>>
    /\ now = 1
    /\ error = NoError
    /\ returned = NoTest
    /\ postCalls = 0
    /\ sinkRaised = FALSE
    /\ call \in [done : {FALSE}, hops : TracePool, out : {<<>>}]

\* the call is made: str(result) of a TracerouteResult with these hops
StrCall ==
    /\ pc = "render"
    /\ ~call.done
    /\ call' = [call EXCEPT !.done = TRUE, !.out = TracerouteResult_str(call.hops)]
    /\ UNCHANGED <<handler, records, pc, tests, current, result, exported, stdout, now,
                   error, returned, postCalls, sinkRaised>>

NextHops == StrCall

HopSpec == InitHops /\ [][NextHops]_vars

(***************************************************************************)
(* Definitions the properties share.                                       *)
(***************************************************************************)
\* the queue the import handler holds when initialise() returns
Queue0 == initialise(handler, records, <<>>).tests

\* the engine exists: initialise() returned
Constructed == pc \in {"ready", "loop", "run", "specific", "export", "done", "aborted"}

\* how many tests next_test() has handed out
Dequeued == Len(Queue0) - Len(tests)

ResultClassOf(test) == IF test.cls = "ping" THEN "PingResult" ELSE "TracerouteResult"

\* r is a result of running t
IsResultOf(r, t) ==
    /\ r.cls = ResultClassOf(t)
    /\ r.id_number = t.id_number
    /\ r.destination = t.destination

\* the sink received exactly the results of tests 1..k, in that order
ExportedFirst(k) ==
    /\ Len(exported) = k
    /\ \A j \in 1..k : IsResultOf(exported[j], Queue0[j])

(***************************************************************************)
(* Properties.                                                             *)
(***************************************************************************)

\* C1: when run_tests() has returned, export_results has been called exactly
\* once per test the source held, with the results of t1..tn in source order,
\* the queue is empty, and every next_test() call made afterwards returned
\* the end-of-stream marker.
C1_DrainsInSourceOrder ==
    pc = "done" =>
        /\ ExportedFirst(Len(Queue0))
        /\ tests = <<>>
        /\ returned = NoTest

\* a run over two tests with different ids has returned and the source has
\* been polled again
C1_Witness ==
    /\ pc = "done"
    /\ Len(exported) = 2
    /\ exported[1].id_number # exported[2].id_number
    /\ postCalls > 0

\* C2: tests are run strictly one at a time: at most one test is dequeued
\* and not yet exported; next_test() is only called when every test handed
\* out so far has had its result exported; while a test is being run no
\* result is pending and the results of all earlier tests are at the sink.
C2_OneTestInFlight ==
    Constructed =>
        LET inflight == Dequeued - Len(exported)
        IN  /\ inflight \in {0, 1}
            /\ inflight = 1 <=> pc \in {"run", "specific", "export", "aborted"}
            /\ pc \in {"run", "specific"} => result = NoResult /\ ExportedFirst(Dequeued - 1)
            /\ pc = "export" => IsResultOf(result, Queue0[Dequeued])

\* the second test is about to run and the first one's result is at the sink
C2_Witness ==
    /\ pc = "run"
    /\ Len(exported) = 1
    /\ tests # <<>>

\* C3: a next_test() call on a non-empty queue returns the head and removes
\* exactly that element, the rest keeping its order; on an empty queue it
\* returns the end-of-stream marker and leaves the queue as it is, so every
\* call made after the queue ran empty returns end-of-stream too.
C3_NextTestPopsHead ==
    /\ [][(pc = "loop" \/ postCalls' # postCalls) =>
            IF tests # <<>>
            THEN returned' # NoTest /\ tests = <<returned'>> \o tests'
            ELSE returned' = NoTest /\ tests' = <<>>]_vars
    /\ [](postCalls > 0 => returned = NoTest /\ tests = <<>>)

\* next_test() has returned the head of a three-element queue
C3_Witness ==
    /\ pc = "run"
    /\ Len(tests) = 2
    /\ returned = Queue0[1]
    /\ tests = Tail(Queue0)

\* C4: when the variant-specific phase of test k fails, the failure leaves
\* run_tests(): no result is pending, the sink holds exactly the results of
\* tests 1..k-1, test k is the one in flight, stamped once, and tests k+1..n
\* are still in the queue, never run.
C4_FailureAbortsBatch ==
    (Constructed /\ error # NoError) =>
        /\ pc = "aborted"
        /\ result = NoResult
        /\ ExportedFirst(Dequeued - 1)
        /\ now = Dequeued + 1
        /\ tests = SubSeq(Queue0, Dequeued + 1, Len(Queue0))

\* the second of three tests failed after the first was exported
C4_Witness ==
    /\ pc = "aborted"
    /\ Len(exported) = 1
    /\ Len(tests) = 1

\* some record names a test_type no class is registered under
HasUnknownKind ==
    \E k \in 1..Len(records) : tests_register_get(records[k]["test_type"]) = "none"

\* no test has been run and nothing has reached the sink
NothingRan == exported = <<>> /\ stdout = <<>> /\ now = 1 /\ current = NoTest

\* C5: a record whose test_type matches no registered class makes the
\* initialisation of the source raise an UnknownTestKind error, before run()
\* is called on any test.
C5_UnknownKindRaisesUnknownTestKind ==
    (HasUnknownKind /\ pc # "new") =>
        /\ pc = "init_failed"
        /\ error.exc = "UnknownTestKind"
        /\ NothingRan

\* the columns a test class coerces, with their target types
Coerced(cls) ==
    IF cls = "ping"
    THEN {<<"id_number", "int">>, <<"count", "int">>, <<"payload_size", "int">>,
          <<"timeout", "int">>, <<"addr_family", "int">>, <<"interval", "float">>}
    ELSE {<<"id_number", "int">>, <<"count", "int">>, <<"payload_size", "int">>,
          <<"timeout", "int">>, <<"max_probes", "int">>, <<"dont_resolve_names", "bool">>,
          <<"interval", "float">>}

\* the record is of a registered kind and holds, in a column its class
\* coerces, a value convert_type cannot convert
HoldsUncoercible(row) ==
    /\ tests_register_get(row["test_type"]) # "none"
    /\ \E c \in Coerced(tests_register_get(row["test_type"])) :
          /\ row[c[1]] \notin {Absent, Empty}
          /\ ~convert_type(row[c[1]], c[2], PyNone).ok

\* C6: if a record holds a value its test class cannot coerce, the program
\* fails while the source is initialised, inside the engine's constructor:
\* no test has been run and no result exported; and a coercion error never
\* surfaces anywhere else.
C6_CoercionFailsAtConstruction ==
    /\ (pc # "new" /\ \E k \in 1..Len(records) : HoldsUncoercible(records[k])) =>
           pc = "init_failed" /\ NothingRan
    /\ error.origin = "convert_type" => pc = "init_failed" /\ NothingRan

\* initialise() built a test from a valid record and then hit a coercion error
C6_Witness ==
    /\ pc = "init_failed"
    /\ error.origin = "convert_type"
    /\ Len(tests) = 1
    /\ HoldsUncoercible(records[2])

\* C7: export_results signals UnsupportedResult for every result that is
\* neither a PingResult nor a TracerouteResult; it never returns normally
\* from such a call.
C7_UnsupportedResultSignalled ==
    (exported # <<>> /\ exported[Len(exported)].cls \notin {"PingResult", "TracerouteResult"})
        => sinkRaised

\* C8: a test's timestamp is None while it is in the queue and until its
\* run() starts; run() sets it as its first step, before the variant-specific
\* phase, and nothing changes it afterwards.
C8_TimestampSetOnceAtRunStart ==
    /\ [](Constructed =>
            /\ \A k \in 1..Len(tests) : tests[k].timestamp = PyNone
            /\ pc = "run" => current.timestamp = PyNone
            /\ pc \in {"specific", "export", "aborted"} => current.timestamp.t = "datetime")
    /\ [][/\ pc = "run" => current.timestamp = PyNone /\ current'.timestamp.t = "datetime"
          /\ pc = "specific" => current'.timestamp = current.timestamp]_vars

\* the second test has been stamped while a third still waits in the queue
C8_Witness ==
    /\ pc = "specific"
    /\ Len(exported) = 1
    /\ Len(tests) = 1
    /\ current.timestamp = PyTime(2)

\* C9: the result run() returns carries the id_number and the timestamp of
\* the test that produced it, so the k-th result at the sink has the id of
\* the k-th test dequeued and a timestamp that is set.
C9_ResultCarriesIdAndTimestamp ==
    Constructed =>
        /\ pc = "export" =>
              /\ result.id_number = current.id_number
              /\ result.timestamp = current.timestamp
        /\ \A j \in 1..Len(exported) :
              /\ exported[j].id_number = Queue0[j].id_number
              /\ exported[j].timestamp.t = "datetime"

\* the sink holds a ping result and a traceroute result
C9_Witness ==
    /\ Len(exported) = 2
    /\ exported[1].cls = "PingResult"
    /\ exported[2].cls = "TracerouteResult"
    /\ pc = "done"

\* C10: run() changes nothing of a test but its timestamp, and nothing at all
\* of the tests still queued: the queue is the untouched rest of what
\* initialise() built, and the test in flight is as built, timestamp aside.
C10_RunLeavesTestAsBuilt ==
    Constructed =>
        /\ tests = SubSeq(Queue0, Dequeued + 1, Len(Queue0))
        /\ current # NoTest => [current EXCEPT !.timestamp = PyNone] = Queue0[Dequeued]

\* a traceroute test has run to its result while another test waits
C10_Witness ==
    /\ pc = "export"
    /\ current.cls = "traceroute"
    /\ tests # <<>>

\* a number or a bool that is zero / false, or the text "0"
IsZeroInput(arg, to_type) ==
    \/ arg \in {PyInt(0), PyFloat(0), PyBool(FALSE)} /\ (to_type = "bool" => arg.t = "bool")
    \/ arg = PyStr(<<"0">>) /\ to_type # "bool"

\* C11: convert_type returns the declared default itself when the input is
\* None, whatever the target type and also when the default is 0, 0.0 or
\* False; and a present input of 0 (False for a bool target) comes back as
\* zero / false, not as the default.
C11_DefaultOnlyWhenAbsent ==
    (pc = "convert" /\ call.done) =>
        /\ call.arg = PyNone => call.out = Returned(call.default)
        /\ IsZeroInput(call.arg, call.to) =>
              /\ call.out.ok
              /\ call.out.v.t \in {"int", "float", "bool"}
              /\ call.out.v.i = 0

\* convert_type(0, int, default=5) has returned 0
C11_Witness ==
    /\ pc = "convert"
    /\ call.done
    /\ call.arg = PyInt(0)
    /\ call.to = "int"
    /\ call.default = PyInt(5)
    /\ call.out = Returned(PyInt(0))

\* the text is "true" / "false" in some mix of letter case
SpellsTrue(cs) ==
    /\ Len(cs) = 4
    /\ cs[1] \in {"t", "T"} /\ cs[2] \in {"r", "R"} /\ cs[3] \in {"u", "U"}
    /\ cs[4] \in {"e", "E"}

SpellsFalse(cs) ==
    /\ Len(cs) = 5
    /\ cs[1] \in {"f", "F"} /\ cs[2] \in {"a", "A"} /\ cs[3] \in {"l", "L"}
    /\ cs[4] \in {"s", "S"} /\ cs[5] \in {"e", "E"}

\* the error convert_type raises on purpose: TypeError("Cannot convert ...")
IsInvalidParameter(out, arg, to_type) ==
    /\ ~out.ok
    /\ out.err = Error("TypeError", "convert_type", arg, to_type)

\* C12: for a bool target, convert_type maps "true" in any letter case to
\* True and "false" in any letter case to False, and raises the conversion
\* error for every other non-empty string instead of returning a value.
C12_BoolTextsByLiteral ==
    (pc = "convert" /\ call.done /\ call.to = "bool" /\ call.arg.t = "str"
       /\ call.arg.s # <<>>) =>
        CASE SpellsTrue(call.arg.s) -> call.out = Returned(PyBool(TRUE))
          [] SpellsFalse(call.arg.s) -> call.out = Returned(PyBool(FALSE))
          [] OTHER -> IsInvalidParameter(call.out, call.arg, "bool")

\* convert_type("FALSE", bool, default=True) has returned False
C12_Witness ==
    /\ pc = "convert"
    /\ call.done
    /\ call.arg = PyStr(<<"F", "A", "L", "S", "E">>)
    /\ call.to = "bool"
    /\ call.default = PyBool(TRUE)
    /\ call.out = Returned(PyBool(FALSE))

\* a present value the target type has no conversion for
Unconvertible(arg, to_type) ==
    /\ arg # PyNone
    /\ CASE to_type = "bool" ->
                /\ arg.t # "bool"
                /\ ~(arg.t = "str" /\ (SpellsTrue(arg.s) \/ SpellsFalse(arg.s)))
         [] to_type = "int" -> arg.t = "str" /\ ~IntLiteralOk(arg.s)
         [] OTHER -> arg.t = "str" /\ ~FloatLiteralOk(arg.s)

\* C13: for every present value that cannot be converted to the target
\* type, a number given for a bool target included, convert_type raises the
\* conversion error naming the value and the target type: it returns
\* nothing and raises no other kind of error.
C13_UnconvertibleRaisesInvalidParameter ==
    (pc = "convert" /\ call.done /\ Unconvertible(call.arg, call.to)) =>
        IsInvalidParameter(call.out, call.arg, call.to)

(***************************************************************************)
(* The layout of a trace report, stated line by line.                      *)
(***************************************************************************)
\* the text ends its last line
Terminated(text) == text = <<>> \/ text[Len(text)] = "\n"

\* the lines of a text, without their newlines
RECURSIVE Lines(_)
Lines(text) ==
    IF text = <<>> THEN <<>>
    ELSE IF \A k \in 1..Len(text) : text[k] # "\n" THEN <<text>>
    ELSE LET nl == CHOOSE k \in 1..Len(text) :
                       text[k] = "\n" /\ \A j \in 1..(k - 1) : text[j] # "\n"
         IN  <<SubSeq(text, 1, nl - 1)>> \o Lines(SubSeq(text, nl + 1, Len(text)))

\* the adjacent pairs of probes with different addresses
Changes(probes) == Cardinality({k \in 2..Len(probes) : probes[k].ip # probes[k - 1].ip})

\* the maximal runs of consecutive probes with the same address
RECURSIVE Runs(_)
Runs(probes) ==
    IF probes = <<>> THEN <<>>
    ELSE LET n == CHOOSE n \in 1..Len(probes) :
                      /\ \A k \in 1..n : probes[k].ip = probes[1].ip
                      /\ n < Len(probes) => probes[n + 1].ip # probes[1].ip
         IN  <<SubSeq(probes, 1, n)>> \o Runs(SubSeq(probes, n + 1, Len(probes)))

\* the round-trip times of a run, in probe order, two blanks between them
RECURSIVE RttTexts(_)
RttTexts(run) ==
    IF run = <<>> THEN <<>>
    ELSE FloatToChars(run[1].rtt) \o <<" ", "m", "s">>
         \o (IF Len(run) = 1 THEN <<>> ELSE <<" ", " ">> \o RttTexts(Tail(run)))

\* one line for a run: name and address once, then every round-trip time
RunLine(run) == <<run[1].name, " ", "(", run[1].ip, ")", " ">> \o RttTexts(run)

\* the hop index right-aligned in two columns, then two blanks
IndexColumns(n) == (IF n < 10 THEN <<" ">> ELSE <<>>) \o IntToChars(n) \o <<" ", " ">>

\* the lines of a hop that has probes
RunLines(hop) ==
    [j \in 1..Len(Runs(hop.probes)) |->
        (IF j = 1 THEN IndexColumns(hop.hop) ELSE <<" ", " ", " ", " ">>)
            \o RunLine(Runs(hop.probes)[j])]

\* the number of lines the hops before hop k take
RECURSIVE LinesBefore(_, _)
LinesBefore(hops, k) ==
    IF k <= 1 THEN 0
    ELSE LinesBefore(hops, k - 1) + 1 + Changes(hops[k - 1].probes)

\* the lines of the report that belong to hop k
LinesOfHop(text, hops, k) ==
    SubSeq(Lines(text), LinesBefore(hops, k) + 1,
           LinesBefore(hops, k) + 1 + Changes(hops[k].probes))

\* three hops: one probe, no probe, a router change after the first probe
ReferenceTrace == Numbered(1, << <<ProbeA1>>, <<>>, <<ProbeA1, ProbeB1, ProbeB2>> >>)

ReferenceLayout ==
    <<" ", "1", " ", " ", "mymodem", " ", "(", "192.168.0.1", ")", " ", "4", ".", "9", "7", "3", " ", "m", "s", "\n",
       " ", "2", " ", " ", "*", " ", "*", " ", "*", "\n",
       " ", "3", " ", " ", "mymodem", " ", "(", "192.168.0.1", ")", " ", "4", ".", "9", "7", "3", " ", "m", "s", "\n",
       " ", " ", " ", " ", "10.5.86.72", " ", "(", "10.5.86.72", ")", " ", "2", ".", "2", " ", "m", "s", " ", " ", "1", "6", ".", "1", "2", "1", " ", "m", "s", "\n">>

\* C14: a hop with probes is rendered one line per maximal run of
\* consecutive probes with the same address: the name and the address once,
\* then the round-trip times in probe order; every line after the first is
\* indented by 4 spaces; so the hop takes 1 line plus one per adjacent pair
\* of probes with different addresses, and the reference trace is rendered
\* in the documented layout.
C14_OneLinePerRun ==
    (pc = "render" /\ call.done) =>
        /\ Terminated(call.out)
        /\ Len(Lines(call.out)) = LinesBefore(call.hops, Len(call.hops) + 1)
        /\ \A k \in 1..Len(call.hops) :
              call.hops[k].probes # <<>> =>
                  LinesOfHop(call.out, call.hops, k) = RunLines(call.hops[k])
        /\ call.hops = ReferenceTrace => call.out = ReferenceLayout

\* a hop with probes A, A, B has been rendered on two lines
C14_Witness ==
    /\ pc = "render"
    /\ call.done
    /\ call.hops = Numbered(1, << <<ProbeA1, ProbeA2, ProbeB1>> >>)
    /\ Len(Lines(call.out)) = 2

\* C15: a hop without probes is rendered as one terminated line holding the
\* hop index in two columns, two blanks and the placeholder * * *, whatever
\* the hops around it; a trace without hops is rendered as the empty text.
C15_EmptyHopPlaceholder ==
    (pc = "render" /\ call.done) =>
        /\ Terminated(call.out)
        /\ \A k \in 1..Len(call.hops) :
              call.hops[k].probes = <<>> =>
                  LinesOfHop(call.out, call.hops, k)
                      = <<IndexColumns(call.hops[k].hop) \o <<"*", " ", "*", " ", "*">>>>
        /\ call.hops = <<>> => call.out = <<>>

\* the reference trace, whose second hop has no probes, has been rendered
C15_Witness ==
    /\ pc = "render"
    /\ call.done
    /\ call.hops = ReferenceTrace
    /\ Len(Lines(call.out)) = 4

\* the result the latest export_results call was given
LastExported == exported[Len(exported)]

\* C16: for every result the console sink consumes, a ping result or a
\* traceroute result, it prints a header line with the result's formatted
\* timestamp and then the result's rendered text.
C16_HeaderThenRenderedText ==
    (pc = "sink" /\ exported # <<>>
       /\ LastExported.cls \in {"PingResult", "TracerouteResult"}) =>
        /\ Len(stdout) >= 2
        /\ stdout[Len(stdout) - 1].label = "Timestamp:"
        /\ stdout[Len(stdout) - 1].ts = LastExported.timestamp
        /\ stdout[Len(stdout)].body = LastExported

\* C17: every test an import handler puts in its queue has an int id (a
\* textual id is coerced); no test is built with the id None.
C17_IdIsInteger ==
    Constructed => \A k \in 1..Len(tests) : tests[k].id_number.t = "int"

\* the tests dequeued and not yet exported
InFlight == IF current # NoTest THEN 1 ELSE 0

\* C18: once the engine is built, run_tests() comes to an end: it returns,
\* with the queue empty and no test in flight, unless a run() raised; and in
\* every state the results exported, the test in flight and the tests still
\* queued add up to the tests the source held after initialise().
C18_DrainsAndConserves ==
    /\ [](Constructed => Len(exported) + InFlight + Len(tests) = Len(Queue0))
    /\ [](pc = "done" => tests = <<>> /\ InFlight = 0)
    /\ (pc = "ready") ~> (pc = "done" \/ pc = "aborted")

\* run_tests() has returned after draining a queue of three tests
C18_Witness ==
    /\ pc = "done"
    /\ Len(Queue0) = 3
    /\ Len(exported) = 3
    /\ tests = <<>>

====
